---- MODULE Spec2Model ----
(***************************************************************************)
(* PowerPointCOMWrapper (src/utils/com_wrapper.py): the COM worker thread, *)
(* its execution queue, the busy-retry loop and the execute() facade.      *)
(*                                                                         *)
(* Spec abstracts time: a sleep may end and a timeout may fire at any       *)
(* moment, which covers every timing of the threads.  TimedSpec counts     *)
(* seconds in countdown timers: the retry sleep (time.sleep), the join     *)
(* timeout of stop() and the future.result timeout of execute().  There a  *)
(* unit of work (func) takes an arbitrary time and every other step of the *)
(* code takes no time, so Tick is only possible when no such step is       *)
(* pending.  The actions take the time unit tm: 0 in Spec, 1 in TimedSpec. *)
(*                                                                         *)
(* HandleSpec is the application and session handle manager of the same    *)
(* class: _connect_impl, _get_app_impl, _get_pres_impl and                 *)
(* _set_target_pres_impl, each called as one unit of work, and the host    *)
(* (PowerPoint and its user) that starts, exits, hides its window, opens   *)
(* and closes documents between the calls.  The functions are operators on *)
(* a record of the state, as they call one another.                        *)
(*                                                                         *)
(* EnvSpec is Spec started with PPT_AUTO_DISMISS_DIALOG set or not set.    *)
(* NestedSpec is Spec with units of work that call execute() themselves.   *)
(* FormSpec is the input model BuildFreeformInput of ppt_com/freeform.py,  *)
(* constructed from one input after another.                               *)
(***************************************************************************)
EXTENDS Integers, Sequences, FiniteSets, TLC

\* ---- bounds of the model ----
MaxCalls == 2      \* execute() calls made in one behaviour
MaxOps == 3        \* start()/stop() calls made in one behaviour
MaxHandles == 3    \* COM proxies obtained in one behaviour
MaxOpen == 2       \* documents open at the same time

\* ---- program constants ----
_RETRY_MAX == 5
_RETRY_INTERVAL == 3
JOIN_TIMEOUT == 5
RESULT_TIMEOUT == 30
RPC_E_CALL_REJECTED == -2147418111
RPC_E_SERVERCALL_RETRYLATER == -2147417846
_BUSY_HRESULTS == {RPC_E_CALL_REJECTED, RPC_E_SERVERCALL_RETRYLATER}

None == 0                      \* the shutdown sentinel on the queue
Calls == 1..MaxCalls           \* pending calls, numbered in execute() order
Threads == 1..MaxOps           \* worker threads, numbered in creation order

\* What one invocation of func(*args, **kwargs) can do: return a value, raise
\* a pywintypes.com_error with some hresult, or raise another Exception.
\* The hresults func may raise: the two busy codes and another one (E_FAIL).
OtherHResults == {-2147467259}
HResults == _BUSY_HRESULTS \cup OtherHResults
Outcomes ==
    {[kind |-> "ok", hresult |-> 0], [kind |-> "exc", hresult |-> 0]}
        \cup {[kind |-> "com_error", hresult |-> h] : h \in HResults}

\* A value or exception object: the outcome and the attempt that produced it.
NoVal == [kind |-> "none", hresult |-> 0, attempt |-> 0]
Obj(o, a) == [kind |-> o.kind, hresult |-> o.hresult, attempt |-> a]

VARIABLES
    running,      \* self._running
    com_thread,   \* self._com_thread: 0 is None, else the newest thread
    queue,        \* self._queue: calls and sentinels, oldest first
    wpc,          \* per thread: where the thread is in _com_worker
    witem,        \* per thread: the item it dequeued (local `item`)
    attempt,      \* per thread: the loop variable `attempt`
    wtimer,       \* per thread: seconds left of time.sleep(_RETRY_INTERVAL)
    fut,          \* per call: the Future (state, value or exception)
    cpc,          \* per call: where its caller is in execute()
    ctimer,       \* per call: seconds left of future.result(timeout=30.0)
    cres,         \* per call: how execute() ended for the caller
    kpc,          \* the controlling thread: "idle" or "joining" in stop()
    jtimer,       \* seconds left of join(timeout=5.0)
    hist,         \* per call: what the worker did with it, in order
    setCount,     \* per call: the set_result and set_exception calls made
    ops,          \* the start()/stop() calls made so far, in order
    _app,         \* self._app: 0 is None, else the number of the COM proxy
    nhandles,     \* the COM proxies handed out so far
    stale,        \* the host that self._app refers to has exited
    host,         \* a PowerPoint process is running
    Visible,      \* Application.Visible of the running host
    Presentations,\* Application.Presentations: the open documents, in order
    active,       \* the position of Application.ActivePresentation, or 0
    _target_pres_full_name,  \* self._target_pres_full_name: <<>> is None
    last,         \* the handle-manager call just made and how it ended
    trip,         \* the handles returned by connect, get_app, get_app
    wdis,         \* per thread: what its last _try_dismiss_ppt_dialog() did
    winner,       \* per thread: the call its unit of work made and waits for
    PPT_AUTO_DISMISS_DIALOG,  \* the environment variable is set to true
    form          \* the BuildFreeformInput just constructed, and how it ended

bridgeVars == <<running, com_thread, queue, wpc, witem, attempt, wtimer, fut,
                cpc, ctimer, cres, kpc, jtimer, hist, setCount, ops, wdis,
                winner>>
handleVars == <<_app, nhandles, stale, host, Visible, Presentations, active,
                _target_pres_full_name, last, trip>>
inputVars == <<PPT_AUTO_DISMISS_DIALOG, form>>
vars == <<bridgeVars, handleVars, inputVars>>

workerVars == <<wpc, witem, attempt, wtimer, wdis, winner>>
callerVars == <<cpc, ctimer, cres>>
ctlVars == <<running, com_thread, kpc, jtimer, ops>>

\* ---- helpers ----
is_alive(t) == t # 0 /\ wpc[t] \notin {"none", "dead"}
Resolved(c) == fut[c].state \in {"result", "exception"}
NCalls == Cardinality({c \in Calls : cpc[c] # "idle"})

\* ---- the handle manager: what it works on ----
\* The documents that can be open in the host.  A string is a sequence of
\* characters.  Documents 1 and 2 have the same short name up to case and
\* are in different folders; document 3 was never saved, so its full name
\* is its short name.
Docs == {1, 2, 3}
Name(d) ==
    CASE d = 1 -> <<"A">>
      [] d = 2 -> <<"a">>
      [] OTHER -> <<"b">>
FullName(d) ==
    CASE d = 1 -> <<"a", "/", "A">>
      [] d = 2 -> <<"b", "/", "a">>
      [] OTHER -> <<"b">>
\* The names a caller asks for, and the positions.
Names == {<<"a">>, <<"A">>, <<"B">>, <<"B", "/", "A">>, <<"a", "/", "a">>,
          <<"b", "/", "b">>}
Positions == (0 - 1)..(MaxOpen + 1)
NoName == <<>>                 \* None in self._target_pres_full_name

\* str.lower() on one character.
LowerChar(ch) ==
    CASE ch = "A" -> "a"
      [] ch = "B" -> "b"
      [] ch = "C" -> "c"
      [] ch = "E" -> "e"
      [] ch = "G" -> "g"
      [] ch = "H" -> "h"
      [] ch = "I" -> "i"
      [] ch = "M" -> "m"
      [] ch = "N" -> "n"
      [] ch = "O" -> "o"
      [] ch = "R" -> "r"
      [] ch = "S" -> "s"
      [] ch = "T" -> "t"
      [] ch = "U" -> "u"
      [] ch = "Y" -> "y"
      [] OTHER -> ch

\* The comparison is made on the strings as they are.
lower_identity(str) == str

\* str.lower()
lower(str) == [i \in DOMAIN str |-> LowerChar(str[i])]

\* The argument of a handle-manager call: `visible` of _connect_impl, or
\* `name_or_index` of _set_target_pres_impl (an int or a str).
NoArg == [kind |-> "none", visible |-> "None", n |-> 0, name |-> NoName]
VisibleArg(v) == [NoArg EXCEPT !.kind = "visible", !.visible = v]
IntArg(p) == [NoArg EXCEPT !.kind = "int", !.n = p]
StrArg(nm) == [NoArg EXCEPT !.kind = "str", !.name = nm]

\* What a call returns: the Application handle, or a document and its
\* position; and the exception it raises.
NoRet == [handle |-> 0, doc |-> 0, index |-> 0]
NoErr == [type |-> "none", text |-> "none", index |-> 0, lo |-> 0, hi |-> 0,
          names |-> <<>>]
Error(type, text) == [NoErr EXCEPT !.type = type, !.text = text]

\* The state the handle manager works on, as one record.
Cur ==
    [app |-> _app, nh |-> nhandles, stale |-> stale, host |-> host,
     vis |-> Visible, pres |-> Presentations, active |-> active,
     pin |-> _target_pres_full_name]

NoState ==
    [app |-> None, nh |-> 0, stale |-> FALSE, host |-> FALSE, vis |-> FALSE,
     pres |-> <<>>, active |-> 0, pin |-> NoName]

\* No handle-manager call has just been made.
NoCall ==
    [op |-> "none", arg |-> NoArg, how |-> "none", ret |-> NoRet,
     err |-> NoErr, calls |-> <<>>, searched |-> FALSE, probed |-> "none",
     pre |-> NoState]

\* What a call of _try_dismiss_ppt_dialog did: FindWindow found the window,
\* the foreground window was changed, the ESC key was sent, and the call
\* raised an exception.
Dismissed(found, fg, esc, raised) ==
    [called |-> TRUE, found |-> found, foreground |-> fg, esc |-> esc,
     raised |-> raised]
NoDismissal ==
    [called |-> FALSE, found |-> FALSE, foreground |-> FALSE, esc |-> FALSE,
     raised |-> FALSE]

\* The fields of a BuildFreeformInput as the caller gives them (the number
\* of nodes stands for the list), and the model that comes of them.
NoRaw == [given |-> FALSE, slide_index |-> 0, start_editing_type |-> <<>>,
          nodes |-> 0]
NoForm == [raw |-> NoRaw, how |-> "none", start_editing_type |-> <<>>]

\* PowerPointCOMWrapper.__init__, and no tool called yet
Construct ==
    /\ running = FALSE
    /\ com_thread = 0
    /\ queue = <<>>
    /\ wpc = [t \in Threads |-> "none"]
    /\ witem = [t \in Threads |-> None]
    /\ attempt = [t \in Threads |-> 0]
    /\ wtimer = [t \in Threads |-> 0]
    /\ fut = [c \in Calls |-> [state |-> "none", val |-> NoVal]]
    /\ cpc = [c \in Calls |-> "idle"]
    /\ ctimer = [c \in Calls |-> 0]
    /\ cres = [c \in Calls |-> [how |-> "none", val |-> NoVal]]
    /\ kpc = "idle"
    /\ jtimer = 0
    /\ hist = [c \in Calls |-> <<>>]
    /\ setCount = [c \in Calls |-> [result |-> 0, exception |-> 0]]
    /\ ops = <<>>
    /\ _app = None
    /\ _target_pres_full_name = NoName
    /\ nhandles = 0
    /\ stale = FALSE
    /\ host = FALSE                 \* PowerPoint is not running yet
    /\ Visible = FALSE
    /\ Presentations = <<>>
    /\ active = 0
    /\ last = NoCall
    /\ trip = <<>>
    /\ wdis = [t \in Threads |-> NoDismissal]
    /\ winner = [t \in Threads |-> None]
    /\ form = NoForm

\* PPT_AUTO_DISMISS_DIALOG is not set in the environment of the server.
Init ==
    /\ Construct
    /\ PPT_AUTO_DISMISS_DIALOG = FALSE

\* The server is started with the variable set to true, or without it.
EnvInit ==
    /\ Construct
    /\ PPT_AUTO_DISMISS_DIALOG \in BOOLEAN

\* ---- Busy-Retry Policy: the `if` of the com_error handler ----
\* The hresult test is dropped: every com_error is retried.
ShouldRetry_anycom(o, a) ==
    /\ o.kind = "com_error"
    /\ a < _RETRY_MAX - 1

\* Off by one: the last attempt of the range is retried as well.
ShouldRetry_offbyone(o, a) ==
    /\ o.kind = "com_error"
    /\ o.hresult \in _BUSY_HRESULTS
    /\ a < _RETRY_MAX

\* Off by one the other way: one retry fewer.
ShouldRetry_onefewer(o, a) ==
    /\ o.kind = "com_error"
    /\ o.hresult \in _BUSY_HRESULTS
    /\ a < _RETRY_MAX - 2

ShouldRetry(o, a) ==
    /\ o.kind = "com_error"
    /\ o.hresult \in _BUSY_HRESULTS
    /\ a < _RETRY_MAX - 1

\* What one attempt does with the Future: set_result, set_exception, or
\* nothing when the attempt is retried.
Resolution(o, a) ==
    IF o.kind = "ok" THEN "result"
    ELSE IF ShouldRetry(o, a) THEN "pending"
    ELSE "exception"

\* The `break` after set_result is missing: func is called again.
AfterAttempt_nobreak(o, a) ==
    IF o.kind = "ok" THEN "run"
    ELSE IF Resolution(o, a) = "pending" THEN "sleep" ELSE "loop"

\* An exception of func leaves the while loop and ends the thread.
AfterAttempt_raise(o, a) ==
    IF Resolution(o, a) = "pending" THEN "sleep"
    ELSE IF Resolution(o, a) = "exception" THEN "dead" ELSE "loop"

\* Where the thread goes after the attempt: into time.sleep, or by `break`
\* out of the for loop and back to the while test.
AfterAttempt(o, a) ==
    IF Resolution(o, a) = "pending" THEN "sleep" ELSE "loop"

\* What func did, as the history of the call records it.
OutcomeEvent(o) ==
    IF o.kind = "com_error" /\ o.hresult \in _BUSY_HRESULTS THEN "busy"
    ELSE o.kind

\* _try_dismiss_ppt_dialog() is called on every retried failure.
Dismisses_always(a) == TRUE

\* `if attempt == 0:` _try_dismiss_ppt_dialog()
Dismisses(a) == a = 0

\* ---- _try_dismiss_ppt_dialog ----
\* What the desktop does when the function is called: FindWindow finds the
\* PowerPoint window, SetForegroundWindow works, and the ESC key is sent
\* (Dispatch("WScript.Shell") and SendKeys work).
Dialogs == [found : BOOLEAN, foreground : BOOLEAN, keys : BOOLEAN]

\* The function without its `try ... except Exception`.
_try_dismiss_ppt_dialog_noexcept(d) ==
    IF ~d.found THEN Dismissed(FALSE, FALSE, FALSE, FALSE)
    ELSE IF ~d.foreground THEN Dismissed(TRUE, FALSE, FALSE, TRUE)
    ELSE IF ~d.keys THEN Dismissed(TRUE, TRUE, FALSE, TRUE)
    ELSE Dismissed(TRUE, TRUE, TRUE, FALSE)

_try_dismiss_ppt_dialog(d) ==
    IF ~d.found THEN Dismissed(FALSE, FALSE, FALSE, FALSE)    \* `return`
    ELSE IF ~d.foreground THEN Dismissed(TRUE, FALSE, FALSE, FALSE)
    ELSE IF ~d.keys THEN Dismissed(TRUE, TRUE, FALSE, FALSE)
    ELSE Dismissed(TRUE, TRUE, TRUE, FALSE)

\* The dismissal that the com_error handler makes on this attempt, if any.
Dismissal(o, a, d) ==
    IF ShouldRetry(o, a) /\ Dismisses(a) THEN _try_dismiss_ppt_dialog(d)
    ELSE NoDismissal

\* The desktop matters to an attempt only when the function is called.
DialogsAt(o, a) ==
    IF ShouldRetry(o, a) /\ Dismisses(a) THEN Dialogs
    ELSE {[found |-> FALSE, foreground |-> FALSE, keys |-> FALSE]}

\* What the attempt adds to the call's history: the outcome of func and,
\* when it is retried, the dismissal and the sleep.
AttemptEvents(o, a) ==
    <<OutcomeEvent(o)>> \o
        (IF ShouldRetry(o, a)
         THEN (IF Dismisses(a) THEN <<"dismiss">> ELSE <<>>) \o <<"sleep">>
         ELSE <<>>)

\* start() without the `if self._running: return`.
start_nocheck ==
    /\ kpc = "idle"
    /\ Len(ops) < MaxOps
    /\ ops' = Append(ops, "start")
    /\ running' = TRUE
    /\ com_thread' = com_thread + 1
    /\ wpc' = [wpc EXCEPT ![com_thread + 1] = "loop"]
    /\ UNCHANGED <<queue, witem, attempt, wtimer, wdis, winner, fut, cpc,
                   ctimer, cres, kpc, jtimer, hist, setCount>>
    /\ UNCHANGED <<handleVars, inputVars>>

\* ---- PowerPointCOMWrapper.start ----
start ==
    /\ kpc = "idle"
    /\ Len(ops) < MaxOps
    /\ ops' = Append(ops, "start")
    /\ IF running
       THEN UNCHANGED <<running, com_thread, wpc>>
       ELSE /\ running' = TRUE
            /\ com_thread' = com_thread + 1
            /\ wpc' = [wpc EXCEPT ![com_thread + 1] = "loop"]
    /\ UNCHANGED <<queue, witem, attempt, wtimer, wdis, winner, fut,
                   callerVars, kpc, jtimer, hist, setCount>>
    /\ UNCHANGED <<handleVars, inputVars>>

\* stop() without the `if not self._running: return`.
stop_nocheck(tm) ==
    /\ kpc = "idle"
    /\ Len(ops) < MaxOps
    /\ ops' = Append(ops, "stop")
    /\ running' = FALSE
    /\ queue' = Append(queue, None)
    /\ IF is_alive(com_thread)
       THEN kpc' = "joining" /\ jtimer' = tm * JOIN_TIMEOUT
       ELSE UNCHANGED <<kpc, jtimer>>
    /\ UNCHANGED <<com_thread, workerVars, fut, callerVars, hist, setCount>>
    /\ UNCHANGED <<handleVars, inputVars>>

\* ---- PowerPointCOMWrapper.stop, up to the join ----
stop(tm) ==
    /\ kpc = "idle"
    /\ Len(ops) < MaxOps
    /\ ops' = Append(ops, "stop")
    /\ IF ~running
       THEN UNCHANGED <<running, queue, kpc, jtimer>>
       ELSE /\ running' = FALSE
            /\ queue' = Append(queue, None)
            /\ IF is_alive(com_thread)
               THEN kpc' = "joining" /\ jtimer' = tm * JOIN_TIMEOUT
               ELSE UNCHANGED <<kpc, jtimer>>
    /\ UNCHANGED <<com_thread, workerVars, fut, callerVars, hist, setCount>>
    /\ UNCHANGED <<handleVars, inputVars>>

\* join(timeout=5.0) returns: the thread ended, or the timeout elapsed.
stop_join ==
    /\ kpc = "joining"
    /\ ~is_alive(com_thread) \/ jtimer = 0
    /\ kpc' = "idle"
    /\ jtimer' = 0
    /\ UNCHANGED <<running, com_thread, ops, queue, workerVars, fut,
                   callerVars, hist, setCount>>
    /\ UNCHANGED <<handleVars, inputVars>>

\* ---- PowerPointCOMWrapper._com_worker ----
\* `while self._running:` and, when it is false, the finally block.
_com_worker_loop(t) ==
    /\ wpc[t] = "loop"
    /\ wpc' = [wpc EXCEPT ![t] = IF running THEN "get" ELSE "dead"]
    /\ witem' = [witem EXCEPT ![t] = None]      \* the locals of the last
    /\ attempt' = [attempt EXCEPT ![t] = 0]     \* iteration are dead
    /\ UNCHANGED <<wtimer, wdis, winner, queue, fut, callerVars, ctlVars,
                   hist, setCount>>
    /\ UNCHANGED <<handleVars, inputVars>>

\* `item = self._queue.get()`, the sentinel test, and the first call of func.
_com_worker_get(t) ==
    /\ wpc[t] = "get"
    /\ queue # <<>>
    /\ queue' = Tail(queue)
    /\ IF Head(queue) = None
       THEN /\ wpc' = [wpc EXCEPT ![t] = "dead"]
            /\ UNCHANGED <<witem, attempt, hist>>
       ELSE /\ wpc' = [wpc EXCEPT ![t] = "run"]
            /\ witem' = [witem EXCEPT ![t] = Head(queue)]
            /\ attempt' = [attempt EXCEPT ![t] = 0]
            /\ hist' = [hist EXCEPT ![Head(queue)] = Append(@, "deq")]
    /\ UNCHANGED <<wtimer, wdis, winner, fut, callerVars, ctlVars, setCount>>
    /\ UNCHANGED <<handleVars, inputVars>>

\* One attempt ends: func returned or raised, and the handler ran.  An
\* exception that leaves _try_dismiss_ppt_dialog leaves the handler and the
\* while loop too, and the thread ends in the finally block.
_com_worker_attempt(t, o, d, tm) ==
    /\ wpc[t] = "run"
    /\ hist' = [hist EXCEPT ![witem[t]] = @ \o AttemptEvents(o, attempt[t])]
    /\ wdis' = [wdis EXCEPT ![t] = Dismissal(o, attempt[t], d)]
    /\ wpc' = [wpc EXCEPT ![t] =
                 IF Dismissal(o, attempt[t], d).raised THEN "dead"
                 ELSE AfterAttempt(o, attempt[t])]
    /\ wtimer' = [wtimer EXCEPT ![t] =
                    IF /\ AfterAttempt(o, attempt[t]) = "sleep"
                       /\ ~Dismissal(o, attempt[t], d).raised
                    THEN tm * _RETRY_INTERVAL ELSE 0]
    /\ IF Resolution(o, attempt[t]) = "pending"
       THEN UNCHANGED <<fut, setCount>>
       ELSE /\ fut' = [fut EXCEPT ![witem[t]] =
                         [state |-> Resolution(o, attempt[t]),
                          val |-> Obj(o, attempt[t])]]
            /\ setCount' = [setCount EXCEPT
                  ![witem[t]][Resolution(o, attempt[t])] = @ + 1]
    /\ UNCHANGED <<witem, attempt, winner, queue, callerVars, ctlVars>>
    /\ UNCHANGED <<handleVars, inputVars>>

\* The running flag is tested after the sleep: a stopped worker gives the
\* call up and goes back to the while test.
_com_worker_wake_stops(t) ==
    /\ wpc[t] = "sleep"
    /\ wtimer[t] = 0
    /\ IF attempt[t] + 1 < _RETRY_MAX /\ running
       THEN /\ wpc' = [wpc EXCEPT ![t] = "run"]
            /\ attempt' = [attempt EXCEPT ![t] = @ + 1]
       ELSE /\ wpc' = [wpc EXCEPT ![t] = "loop"]
            /\ UNCHANGED attempt
    /\ wdis' = [wdis EXCEPT ![t] = NoDismissal]
    /\ UNCHANGED <<witem, wtimer, winner, queue, fut, callerVars, ctlVars,
                   hist, setCount>>
    /\ UNCHANGED <<handleVars, inputVars>>

\* time.sleep(_RETRY_INTERVAL) is over: the next iteration of
\* `for attempt in range(_RETRY_MAX)` calls func again; when the range is
\* used up the for loop ends and the thread is back at the while test.
_com_worker_wake(t) ==
    /\ wpc[t] = "sleep"
    /\ wtimer[t] = 0
    /\ IF attempt[t] + 1 < _RETRY_MAX
       THEN /\ wpc' = [wpc EXCEPT ![t] = "run"]
            /\ attempt' = [attempt EXCEPT ![t] = @ + 1]
       ELSE /\ wpc' = [wpc EXCEPT ![t] = "loop"]
            /\ UNCHANGED attempt
    /\ wdis' = [wdis EXCEPT ![t] = NoDismissal]
    /\ UNCHANGED <<witem, wtimer, winner, queue, fut, callerVars, ctlVars,
                   hist, setCount>>
    /\ UNCHANGED <<handleVars, inputVars>>

\* ---- PowerPointCOMWrapper.execute ----
\* The Future is created and the pending call is put on the queue.
execute(c, tm) ==
    /\ cpc[c] = "idle"
    /\ c = NCalls + 1
    /\ fut' = [fut EXCEPT ![c] = [state |-> "pending", val |-> NoVal]]
    /\ queue' = Append(queue, c)
    /\ cpc' = [cpc EXCEPT ![c] = "waiting"]
    /\ ctimer' = [ctimer EXCEPT ![c] = tm * RESULT_TIMEOUT]
    /\ UNCHANGED <<cres, workerVars, ctlVars, hist, setCount>>
    /\ UNCHANGED <<handleVars, inputVars>>

\* ---- execute() called by a unit of work ----
\* The unit of work that thread t is running calls execute() (or connect(),
\* get_app(), ensure_presentation(), which call it): the pending call is put
\* on the queue and the thread waits in future.result(timeout=30.0).
unit_executes(t, c, tm) ==
    /\ wpc[t] = "run"
    /\ cpc[c] = "idle"
    /\ c = NCalls + 1
    /\ fut' = [fut EXCEPT ![c] = [state |-> "pending", val |-> NoVal]]
    /\ queue' = Append(queue, c)
    /\ cpc' = [cpc EXCEPT ![c] = "waiting"]
    /\ ctimer' = [ctimer EXCEPT ![c] = tm * RESULT_TIMEOUT]
    /\ wpc' = [wpc EXCEPT ![t] = "inner"]
    /\ winner' = [winner EXCEPT ![t] = c]
    /\ UNCHANGED <<cres, witem, attempt, wtimer, wdis, ctlVars, hist,
                   setCount>>
    /\ UNCHANGED <<handleVars, inputVars>>

\* execute() has returned or raised in the unit of work, which goes on.
unit_resumes(t) ==
    /\ wpc[t] = "inner"
    /\ cpc[winner[t]] \in {"done", "gone"}
    /\ wpc' = [wpc EXCEPT ![t] = "run"]
    /\ winner' = [winner EXCEPT ![t] = None]
    /\ UNCHANGED <<witem, attempt, wtimer, wdis, queue, fut, callerVars,
                   ctlVars, hist, setCount>>
    /\ UNCHANGED <<handleVars, inputVars>>

\* future.result(...) returns the value or raises the stored exception.
execute_result(c) ==
    /\ cpc[c] = "waiting"
    /\ Resolved(c)
    /\ cpc' = [cpc EXCEPT ![c] = "done"]
    /\ cres' = [cres EXCEPT ![c] =
                  [how |-> IF fut[c].state = "result" THEN "return"
                                                      ELSE "raise",
                   val |-> fut[c].val]]
    /\ ctimer' = [ctimer EXCEPT ![c] = 0]
    /\ UNCHANGED <<queue, fut, workerVars, ctlVars, hist, setCount>>
    /\ UNCHANGED <<handleVars, inputVars>>

\* The timed-out caller cancels the Future before it raises TimeoutError.
execute_timeout_cancel(c) ==
    /\ cpc[c] = "waiting"
    /\ ~Resolved(c)
    /\ ctimer[c] = 0
    /\ cpc' = [cpc EXCEPT ![c] = "done"]
    /\ cres' = [cres EXCEPT ![c] = [how |-> "timeout", val |-> NoVal]]
    /\ fut' = [fut EXCEPT ![c] = [state |-> "exception", val |-> NoVal]]
    /\ UNCHANGED <<ctimer, queue, workerVars, ctlVars, hist, setCount>>
    /\ UNCHANGED <<handleVars, inputVars>>

\* future.result(timeout=30.0) raises TimeoutError.
execute_timeout(c) ==
    /\ cpc[c] = "waiting"
    /\ ~Resolved(c)
    /\ ctimer[c] = 0
    /\ cpc' = [cpc EXCEPT ![c] = "done"]
    /\ cres' = [cres EXCEPT ![c] = [how |-> "timeout", val |-> NoVal]]
    /\ UNCHANGED <<ctimer, queue, fut, workerVars, ctlVars, hist, setCount>>
    /\ UNCHANGED <<handleVars, inputVars>>

\* ---- time ----
\* A step of the code that is due now and takes no time.
Urgent ==
    \/ \E t \in Threads : wpc[t] = "loop"
    \/ \E t \in Threads : wpc[t] = "get" /\ queue # <<>>
    \/ \E t \in Threads : wpc[t] = "sleep" /\ wtimer[t] = 0
    \/ \E c \in Calls : cpc[c] = "waiting" /\ (Resolved(c) \/ ctimer[c] = 0)
    \/ kpc = "joining" /\ (~is_alive(com_thread) \/ jtimer = 0)

TimerRunning ==
    \/ \E t \in Threads : wpc[t] = "sleep"
    \/ \E c \in Calls : cpc[c] = "waiting"
    \/ kpc = "joining"

\* One second passes.
Tick ==
    /\ ~Urgent
    /\ TimerRunning
    /\ wtimer' = [t \in Threads |->
                    IF wpc[t] = "sleep" THEN wtimer[t] - 1 ELSE wtimer[t]]
    /\ ctimer' = [c \in Calls |->
                    IF cpc[c] = "waiting" THEN ctimer[c] - 1 ELSE ctimer[c]]
    /\ jtimer' = IF kpc = "joining" THEN jtimer - 1 ELSE jtimer
    /\ UNCHANGED <<running, com_thread, queue, wpc, witem, attempt, fut, cpc,
                   cres, kpc, hist, setCount, ops, wdis, winner>>
    /\ UNCHANGED <<handleVars, inputVars>>

\* ---- the pending call is discarded ----
\* Once the worker has resolved the Future of a call and execute() has ended
\* for its caller, nothing refers to the pending call or its Future any
\* more.  Only the count of the calls made on the Future is kept.
Garbage(c) ==
    /\ cpc[c] = "done"
    /\ Resolved(c)

discard(c) ==
    /\ Garbage(c)
    /\ cpc' = [cpc EXCEPT ![c] = "gone"]
    /\ fut' = [fut EXCEPT ![c] = [state |-> "gone", val |-> NoVal]]
    /\ cres' = [cres EXCEPT ![c] = [how |-> "gone", val |-> NoVal]]
    /\ hist' = [hist EXCEPT ![c] = <<>>]
    /\ UNCHANGED <<ctimer, queue, workerVars, ctlVars, setCount>>
    /\ UNCHANGED <<handleVars, inputVars>>

\* future.result() returns as soon as the Future is resolved, and a finished
\* call is discarded: these two steps change only what belongs to the call,
\* and they are taken before any other step.
NoGarbage ==
    \A c \in Calls : ~Garbage(c) /\ ~(cpc[c] = "waiting" /\ Resolved(c))

Next ==
    \/ \E c \in Calls : discard(c)
    \/ NoGarbage /\ start
    \/ NoGarbage /\ stop(0)
    \/ NoGarbage /\ stop_join
    \/ NoGarbage /\ \E t \in Threads : _com_worker_loop(t)
    \/ NoGarbage /\ \E t \in Threads : _com_worker_get(t)
    \/ NoGarbage /\ \E t \in Threads, o \in Outcomes :
                    \E d \in DialogsAt(o, attempt[t]) :
                        _com_worker_attempt(t, o, d, 0)
    \/ NoGarbage /\ \E t \in Threads : _com_worker_wake(t)
    \/ NoGarbage /\ \E c \in Calls : execute(c, 0)
    \/ \E c \in Calls : execute_result(c)
    \/ NoGarbage /\ \E c \in Calls : execute_timeout(c)

TimedNext ==
    \/ \E c \in Calls : discard(c)
    \/ NoGarbage /\ start
    \/ NoGarbage /\ stop(1)
    \/ NoGarbage /\ stop_join
    \/ NoGarbage /\ \E t \in Threads : _com_worker_loop(t)
    \/ NoGarbage /\ \E t \in Threads : _com_worker_get(t)
    \/ NoGarbage /\ \E t \in Threads, o \in Outcomes :
                    \E d \in DialogsAt(o, attempt[t]) :
                        _com_worker_attempt(t, o, d, 1)
    \/ NoGarbage /\ \E t \in Threads : _com_worker_wake(t)
    \/ NoGarbage /\ \E c \in Calls : execute(c, 1)
    \/ \E c \in Calls : execute_result(c)
    \/ NoGarbage /\ \E c \in Calls : execute_timeout(c)
    \/ NoGarbage /\ Tick

Spec == Init /\ [][Next]_vars

TimedSpec == Init /\ [][TimedNext]_vars

\* The steps of the worker threads and of a caller whose Future is resolved.
Progress ==
    \/ \E c \in Calls : discard(c)
    \/ \E c \in Calls : execute_result(c)
    \/ NoGarbage /\ \E t \in Threads : _com_worker_loop(t)
    \/ NoGarbage /\ \E t \in Threads : _com_worker_get(t)
    \/ NoGarbage /\ \E t \in Threads, o \in Outcomes :
                    \E d \in DialogsAt(o, attempt[t]) :
                        _com_worker_attempt(t, o, d, 0)
    \/ NoGarbage /\ \E t \in Threads : _com_worker_wake(t)

\* The threads are scheduled, and every unit of work and every sleep ends:
\* while one of these steps is possible, one of them is taken.
Fairness == WF_vars(Progress)

LiveSpec == Init /\ [][Next]_vars /\ Fairness

\* The worker with units of work that call execute() themselves.
NestedNext ==
    \/ \E c \in Calls : discard(c)
    \/ NoGarbage /\ start
    \/ NoGarbage /\ stop(0)
    \/ NoGarbage /\ stop_join
    \/ NoGarbage /\ \E t \in Threads : _com_worker_loop(t)
    \/ NoGarbage /\ \E t \in Threads : _com_worker_get(t)
    \/ NoGarbage /\ \E t \in Threads, o \in Outcomes :
                    \E d \in DialogsAt(o, attempt[t]) :
                        _com_worker_attempt(t, o, d, 0)
    \/ NoGarbage /\ \E t \in Threads : _com_worker_wake(t)
    \/ NoGarbage /\ \E c \in Calls : execute(c, 0)
    \/ NoGarbage /\ \E t \in Threads, c \in Calls : unit_executes(t, c, 0)
    \/ NoGarbage /\ \E t \in Threads : unit_resumes(t)
    \/ \E c \in Calls : execute_result(c)
    \/ NoGarbage /\ \E c \in Calls : execute_timeout(c)

NestedSpec == Init /\ [][NestedNext]_vars

\* The worker under either setting of the environment variable.
EnvSpec == EnvInit /\ [][Next]_vars

\* ---- the handle manager: the functions, on the state record s ----
\* `in` holds what the host does when it is called: in.probe, the read of
\* Application.Name works on a live handle; in.dispatch, Dispatch can launch
\* PowerPoint; in.activate, Windows(1).Activate() works; in.scan, the reads
\* of Presentations(i) and FullName in the search loop work.
In == [probe : BOOLEAN, dispatch : BOOLEAN, activate : BOOLEAN,
       scan : BOOLEAN]
\* The calls that neither search nor activate, and those that do not search.
InConnect == {in \in In : in.activate /\ in.scan}
InPin == {in \in In : in.scan}

Return(s, ret, calls, searched) ==
    [s |-> s, how |-> "return", ret |-> ret, err |-> NoErr, calls |-> calls,
     searched |-> searched]
Raise(s, err, calls, searched) ==
    [s |-> s, how |-> "raise", ret |-> NoRet, err |-> err, calls |-> calls,
     searched |-> searched]
Handle(h) == [NoRet EXCEPT !.handle = h]

\* `_ = self._app.Name` does not raise.
Probe(s, in) == s.app # None /\ ~s.stale /\ in.probe

\* Lines 190-194: the requested visibility, or visible when it is not.
AppliedVisible(visible, cur) ==
    IF visible # "None" THEN visible = "True"
    ELSE IF ~cur THEN TRUE
    ELSE cur

\* Lines 177-196 of _connect_impl, entered with self._app = None:
\* GetActiveObject, then Dispatch, then ConnectionError.
Reconnect(s, visible, in) ==
    IF s.host
    THEN Return([s EXCEPT !.app = s.nh + 1, !.nh = s.nh + 1,
                          !.vis = AppliedVisible(visible, s.vis)],
                Handle(s.nh + 1), <<"GetActiveObject">>, FALSE)
    ELSE IF in.dispatch
    THEN Return([s EXCEPT !.app = s.nh + 1, !.nh = s.nh + 1,
                          !.host = TRUE,
                          !.vis = AppliedVisible(visible, FALSE),
                          !.pres = <<>>, !.active = 0],
                Handle(s.nh + 1), <<"GetActiveObject", "Dispatch">>, FALSE)
    ELSE Raise(s, Error("ConnectionError", "Failed to connect to PowerPoint"),
               <<"GetActiveObject", "Dispatch">>, FALSE)

\* The stale handle stays in self._app.
_connect_impl_keep(s, visible, in) ==
    IF Probe(s, in)
    THEN Return([s EXCEPT !.vis = IF visible = "None" THEN @
                                  ELSE visible = "True"],
                Handle(s.app), <<>>, FALSE)
    ELSE Reconnect(s, visible, in)

\* PowerPointCOMWrapper._connect_impl
_connect_impl(s, visible, in) ==
    IF Probe(s, in)
    THEN Return([s EXCEPT !.vis = IF visible = "None" THEN @
                                  ELSE visible = "True"],
                Handle(s.app), <<>>, FALSE)
    ELSE Reconnect([s EXCEPT !.app = None, !.stale = FALSE], visible, in)

\* The cached handle is not used: every call connects again.
_get_app_impl_always(s, in) ==
    _connect_impl([s EXCEPT !.app = None, !.stale = FALSE], "None", in)

\* PowerPointCOMWrapper._get_app_impl
_get_app_impl(s, in) ==
    IF s.app = None THEN _connect_impl(s, "None", in)
    ELSE IF Probe(s, in) THEN Return(s, Handle(s.app), <<>>, FALSE)
    ELSE _connect_impl([s EXCEPT !.app = None, !.stale = FALSE], "None", in)

\* app.ActivePresentation: it raises when no document is open (the reason
\* for the Count test of _ensure_presentation_impl).
ActivePresentation(s, calls, searched) ==
    IF Len(s.pres) = 0
    THEN Raise(s, Error("com_error", "no active presentation"), calls,
               searched)
    ELSE Return(s, [NoRet EXCEPT !.doc = s.pres[s.active],
                                 !.index = s.active], calls, searched)

\* The positions the search loop of _get_pres_impl stops at.
Hits(s, in) ==
    {i \in 1..Len(s.pres) : in.scan /\ FullName(s.pres[i]) = s.pin}
FirstOf(S) == CHOOSE i \in S : \A j \in S : i <= j

\* The pinned name is kept when the search finds nothing.
_get_pres_impl_keeppin(s, in) ==
    LET g == _get_app_impl(s, in) IN
    IF g.how = "raise" THEN g
    ELSE IF g.s.pin # NoName /\ Hits(g.s, in) # {}
    THEN Return([g.s EXCEPT !.active = IF in.activate
                                       THEN FirstOf(Hits(g.s, in)) ELSE @],
                [NoRet EXCEPT !.doc = g.s.pres[FirstOf(Hits(g.s, in))],
                              !.index = FirstOf(Hits(g.s, in))],
                g.calls, TRUE)
    ELSE ActivePresentation(g.s, g.calls, g.s.pin # NoName)

\* PowerPointCOMWrapper._get_pres_impl
_get_pres_impl(s, in) ==
    LET g == _get_app_impl(s, in) IN
    IF g.how = "raise" THEN g
    ELSE IF g.s.pin # NoName /\ Hits(g.s, in) # {}
    THEN Return([g.s EXCEPT !.active = IF in.activate
                                       THEN FirstOf(Hits(g.s, in)) ELSE @],
                [NoRet EXCEPT !.doc = g.s.pres[FirstOf(Hits(g.s, in))],
                              !.index = FirstOf(Hits(g.s, in))],
                g.calls, TRUE)
    ELSE ActivePresentation([g.s EXCEPT !.pin = NoName], g.calls,
                            g.s.pin # NoName)

\* `name_or_index < 1 or name_or_index > app.Presentations.Count`
OutOfRange(p, n) == p < 1 \/ p > n

\* The message names the range 0-N.
RangeError_zero(p, n) ==
    [Error("ValueError", "out of range") EXCEPT
        !.index = p, !.lo = 0, !.hi = n]

\* ValueError "Presentation index {p} out of range (1-{Count})"
RangeError(p, n) ==
    [Error("ValueError", "out of range") EXCEPT
        !.index = p, !.lo = 1, !.hi = n]

\* [p.Name for p in ...]
NamesOf(pres) == [i \in DOMAIN pres |-> Name(pres[i])]

\* The documents that `name` selects: lines 262-267.
Matches(pres, name) ==
    LET IsMatch(d) == \/ lower(Name(d)) = lower(name)
                      \/ lower(FullName(d)) = lower(name)
    IN SelectSeq(pres, IsMatch)

\* Lines 284-303: activate the window, store the FullName, find the index.
PinDocument(s, d, in, calls) ==
    LET same == {i \in 1..Len(s.pres) : FullName(s.pres[i]) = FullName(d)}
        at == CHOOSE i \in 1..Len(s.pres) : s.pres[i] = d
    IN Return([s EXCEPT !.pin = FullName(d),
                        !.active = IF in.activate THEN at ELSE @],
              [NoRet EXCEPT !.doc = d, !.index = FirstOf(same)],
              calls, FALSE)

\* The old pin is dropped as soon as the host is reached, before the
\* request is examined.
_set_target_pres_impl_unpin(s, arg, in) ==
    LET g0 == _get_app_impl(s, in)
        g == [g0 EXCEPT !.s.pin = NoName]
    IN
    IF g0.how = "raise" THEN g0
    ELSE IF Len(g.s.pres) = 0
    THEN Raise(g.s, Error("RuntimeError", "No presentation is open"),
               g.calls, FALSE)
    ELSE IF arg.kind = "int"
    THEN IF OutOfRange(arg.n, Len(g.s.pres))
         THEN Raise(g.s, RangeError(arg.n, Len(g.s.pres)), g.calls, FALSE)
         ELSE PinDocument(g.s, g.s.pres[arg.n], in, g.calls)
    ELSE IF Len(Matches(g.s.pres, arg.name)) = 0
    THEN Raise(g.s, [Error("ValueError", "not found") EXCEPT
                        !.names = NamesOf(g.s.pres)], g.calls, FALSE)
    ELSE IF Len(Matches(g.s.pres, arg.name)) > 1
    THEN Raise(g.s, [Error("ValueError", "multiple match") EXCEPT
                        !.names = NamesOf(Matches(g.s.pres, arg.name))],
               g.calls, FALSE)
    ELSE PinDocument(g.s, Matches(g.s.pres, arg.name)[1], in, g.calls)

\* PowerPointCOMWrapper._set_target_pres_impl
_set_target_pres_impl(s, arg, in) ==
    LET g == _get_app_impl(s, in) IN
    IF g.how = "raise" THEN g
    ELSE IF Len(g.s.pres) = 0
    THEN Raise(g.s, Error("RuntimeError", "No presentation is open"),
               g.calls, FALSE)
    ELSE IF arg.kind = "int"
    THEN IF OutOfRange(arg.n, Len(g.s.pres))
         THEN Raise(g.s, RangeError(arg.n, Len(g.s.pres)), g.calls, FALSE)
         ELSE PinDocument(g.s, g.s.pres[arg.n], in, g.calls)
    ELSE IF Len(Matches(g.s.pres, arg.name)) = 0
    THEN Raise(g.s, [Error("ValueError", "not found") EXCEPT
                        !.names = NamesOf(g.s.pres)], g.calls, FALSE)
    ELSE IF Len(Matches(g.s.pres, arg.name)) > 1
    THEN Raise(g.s, [Error("ValueError", "multiple match") EXCEPT
                        !.names = NamesOf(Matches(g.s.pres, arg.name))],
               g.calls, FALSE)
    ELSE PinDocument(g.s, Matches(g.s.pres, arg.name)[1], in, g.calls)

\* ---- the handle manager: one call, made by a unit of work ----
\* The handles returned so far by a connect and the get_app calls that
\* followed it with the probe succeeding: at most three calls, and empty
\* when the last call was not one of these.
TripAfter(op, probed, r) ==
    IF op = "connect" /\ r.how = "return" THEN <<r.ret.handle>>
    ELSE IF /\ op = "get_app" /\ r.how = "return" /\ probed = "ok"
            /\ trip # <<>> /\ Len(trip) < 3
    THEN Append(trip, r.ret.handle)
    ELSE <<>>

Probed(in) ==
    IF _app = None THEN "none"
    ELSE IF Probe(Cur, in) THEN "ok" ELSE "failed"

\* The call ends as r says: the state is written back and the call recorded.
Call(op, arg, in, r) ==
    /\ _app' = r.s.app
    /\ nhandles' = r.s.nh
    /\ stale' = r.s.stale
    /\ host' = r.s.host
    /\ Visible' = r.s.vis
    /\ Presentations' = r.s.pres
    /\ active' = r.s.active
    /\ _target_pres_full_name' = r.s.pin
    /\ last' = [op |-> op, arg |-> arg, how |-> r.how, ret |-> r.ret,
                err |-> r.err, calls |-> r.calls, searched |-> r.searched,
                probed |-> Probed(in), pre |-> Cur]
    /\ trip' = TripAfter(op, Probed(in), r)
    /\ UNCHANGED <<bridgeVars, inputVars>>

\* A unit of work is ready to make a call: no call is being recorded, and
\* a COM proxy is left to hand out.
Ready == last.op = "none" /\ nhandles < MaxHandles

unit_connect(visible, in) ==
    /\ Ready
    /\ Call("connect", VisibleArg(visible), in,
            _connect_impl(Cur, visible, in))

unit_get_app(in) ==
    /\ Ready
    /\ Call("get_app", NoArg, in, _get_app_impl(Cur, in))

unit_get_pres(in) ==
    /\ Ready
    /\ Call("get_pres", NoArg, in, _get_pres_impl(Cur, in))

unit_set_target_pres(arg, in) ==
    /\ Ready
    /\ Call("set_target_pres", arg, in,
            _set_target_pres_impl(Cur, arg, in))

\* The unit of work that made the call ends: what the call returned or
\* raised is no longer at hand.  This step is taken before any other.
unit_ends ==
    /\ last.op # "none"
    /\ last' = NoCall
    /\ UNCHANGED <<_app, nhandles, stale, host, Visible, Presentations,
                   active, _target_pres_full_name, trip, bridgeVars,
                   inputVars>>

\* ---- the host and its user ----
\* The user starts PowerPoint: a visible window, no document yet.
host_started ==
    /\ last.op = "none"
    /\ ~host
    /\ host' = TRUE
    /\ Visible' = TRUE
    /\ UNCHANGED <<_app, nhandles, stale, Presentations, active,
                   _target_pres_full_name, last, trip, bridgeVars,
                   inputVars>>

\* PowerPoint exits: a handle to it is stale from now on.
host_exited ==
    /\ last.op = "none"
    /\ host
    /\ host' = FALSE
    /\ Visible' = FALSE
    /\ Presentations' = <<>>
    /\ active' = 0
    /\ stale' = (_app # None)
    /\ UNCHANGED <<_app, nhandles, _target_pres_full_name, last, trip, bridgeVars,
                   inputVars>>

\* The window is hidden or shown by the user or by another program.
host_visibility(v) ==
    /\ last.op = "none"
    /\ host
    /\ Visible # v
    /\ Visible' = v
    /\ UNCHANGED <<_app, nhandles, stale, host, Presentations, active,
                   _target_pres_full_name, last, trip, bridgeVars,
                   inputVars>>

\* A document is opened; it becomes the active one.
doc_opened(d) ==
    /\ last.op = "none"
    /\ host
    /\ Len(Presentations) < MaxOpen
    /\ \A i \in DOMAIN Presentations : Presentations[i] # d
    /\ Presentations' = Append(Presentations, d)
    /\ active' = Len(Presentations) + 1
    /\ UNCHANGED <<_app, nhandles, stale, host, Visible,
                   _target_pres_full_name, last, trip, bridgeVars,
                   inputVars>>

\* The document at position i is closed; the positions behind it move up.
doc_closed(i) ==
    /\ last.op = "none"
    /\ host
    /\ i \in DOMAIN Presentations
    /\ Presentations' = [j \in 1..(Len(Presentations) - 1) |->
                            IF j < i THEN Presentations[j]
                            ELSE Presentations[j + 1]]
    /\ active' = IF Len(Presentations) = 1 THEN 0
                 ELSE IF active > i THEN active - 1
                 ELSE IF active = i /\ i = Len(Presentations) THEN i - 1
                 ELSE active
    /\ UNCHANGED <<_app, nhandles, stale, host, Visible,
                   _target_pres_full_name, last, trip, bridgeVars,
                   inputVars>>

\* The user brings the window of another document to the front.
doc_activated(i) ==
    /\ last.op = "none"
    /\ host
    /\ i \in DOMAIN Presentations
    /\ active # i
    /\ active' = i
    /\ UNCHANGED <<_app, nhandles, stale, host, Visible, Presentations,
                   _target_pres_full_name, last, trip, bridgeVars,
                   inputVars>>

HandleNext ==
    \/ \E v \in {"None", "True", "False"}, in \in InConnect :
          unit_connect(v, in)
    \/ \E in \in InConnect : unit_get_app(in)
    \/ \E in \in In : unit_get_pres(in)
    \/ \E p \in Positions, in \in InPin : unit_set_target_pres(IntArg(p), in)
    \/ \E nm \in Names, in \in InPin : unit_set_target_pres(StrArg(nm), in)
    \/ unit_ends
    \/ host_started
    \/ host_exited
    \/ \E v \in BOOLEAN : host_visibility(v)
    \/ \E d \in Docs : doc_opened(d)
    \/ \E i \in 1..MaxOpen : doc_closed(i)
    \/ \E i \in 1..MaxOpen : doc_activated(i)

\* The handle manager alone: the worker and its queue stay as constructed.
HandleSpec == Init /\ [][HandleNext]_vars

\* ---- ppt_com.freeform: BuildFreeformInput ----
Auto == <<"a", "u", "t", "o">>
Corner == <<"c", "o", "r", "n", "e", "r">>
Smooth == <<"s", "m", "o", "o", "t", "h">>
Symmetric == <<"s", "y", "m", "m", "e", "t", "r", "i", "c">>
Bogus == <<"b", "o", "g", "u", "s">>

\* The keys of EDITING_TYPE_MAP, as the validator's own message and the
\* field description list them.
EDITING_TYPE_MAP == {Auto, Corner, Smooth, Symmetric}

\* str.upper() on one character, and str.upper(), str.capitalize(): the
\* spellings a caller may use.
UpperChar(ch) ==
    IF \E u \in {"A", "B", "C", "E", "G", "H", "I", "M", "N", "O", "R", "S",
                 "T", "U", "Y"} : LowerChar(u) = ch
    THEN CHOOSE u \in {"A", "B", "C", "E", "G", "H", "I", "M", "N", "O", "R",
                       "S", "T", "U", "Y"} : LowerChar(u) = ch
    ELSE ch
upper(str) == [i \in DOMAIN str |-> UpperChar(str[i])]
capitalize(str) ==
    [i \in DOMAIN str |-> IF i = 1 THEN UpperChar(str[i]) ELSE str[i]]

\* The values given for start_editing_type: five words and the empty
\* string, each in three spellings, bare or with a blank before or after.
Words == {Auto, Corner, Smooth, Symmetric, Bogus, <<>>}
Spellings == Words \cup {upper(w) : w \in Words}
                   \cup {capitalize(w) : w \in Words}
EditingTypes == Spellings \cup {<<" ">> \o w : w \in Spellings}
                          \cup {w \o <<" ">> : w \in Spellings}

\* The inputs of BuildFreeformInput: start_editing_type given or left out,
\* slide_index, and the number of (valid) nodes in the list.
RawInputs ==
    [given : {TRUE}, slide_index : 0..2, start_editing_type : EditingTypes,
     nodes : 0..1]
    \cup [given : {FALSE}, slide_index : 0..2, start_editing_type : {<<>>},
          nodes : 0..1]

\* str_strip_whitespace=True: str.strip() on a string field.
RECURSIVE lstrip(_)
lstrip(str) ==
    IF str # <<>> /\ Head(str) = " " THEN lstrip(Tail(str)) ELSE str
RECURSIVE rstrip(_)
rstrip(str) ==
    IF str # <<>> /\ str[Len(str)] = " "
    THEN rstrip(SubSeq(str, 1, Len(str) - 1)) ELSE str
strip(str) == rstrip(lstrip(str))

\* The field as the validators get it: the default 'corner' when left out.
FieldValue(raw) ==
    IF raw.given THEN strip(raw.start_editing_type) ELSE Corner

\* Field(..., ge=1) of slide_index and Field(..., min_length=1) of nodes.
FieldsValid(raw) == raw.slide_index >= 1 /\ raw.nodes >= 1

\* BuildFreeformInput.validate_start_editing_type
validate_start_editing_type(et) ==
    IF lower(et) \notin EDITING_TYPE_MAP
    THEN [how |-> "ValidationError", start_editing_type |-> <<>>]
    ELSE [how |-> "accepted", start_editing_type |-> lower(et)]

\* BuildFreeformInput(**raw): the fields are validated, then the model
\* validator runs.
BuildFreeformInput(raw) ==
    /\ form' = IF ~FieldsValid(raw)
               THEN [raw |-> raw, how |-> "ValidationError",
                     start_editing_type |-> <<>>]
               ELSE [raw |-> raw,
                     how |-> validate_start_editing_type(FieldValue(raw)).how,
                     start_editing_type |->
                         validate_start_editing_type(FieldValue(raw))
                             .start_editing_type]
    /\ UNCHANGED <<bridgeVars, handleVars, PPT_AUTO_DISMISS_DIALOG>>

FormNext == \E raw \in RawInputs : BuildFreeformInput(raw)

\* The input model alone: a tool is called with one input after another.
FormSpec == Init /\ [][FormNext]_vars

TypeOK ==
    /\ running \in BOOLEAN
    /\ com_thread \in 0..MaxOps
    /\ \A t \in Threads : wpc[t] \in {"none", "loop", "get", "run", "sleep", "inner", "dead"}
    /\ \A t \in Threads : wtimer[t] \in 0.._RETRY_INTERVAL
    /\ \A t \in Threads : attempt[t] \in 0..(_RETRY_MAX - 1)
    /\ \A c \in Calls : ctimer[c] \in 0..RESULT_TIMEOUT
    /\ jtimer \in 0..JOIN_TIMEOUT
    /\ \A t \in Threads : winner[t] \in {None} \cup Calls
    /\ \A t \in Threads : wdis[t].called \in BOOLEAN
    /\ PPT_AUTO_DISMISS_DIALOG \in BOOLEAN
    /\ form.how \in {"none", "accepted", "ValidationError"}

\* ---- what the claims speak about ----
OutcomeEvents == {"ok", "busy", "com_error", "exc"}
IsOutcome(e) == e \in OutcomeEvents
\* The outcomes of the invocations of func made for call c, in order.
Invocations(c) == SelectSeq(hist[c], IsOutcome)
IsDismiss(e) == e = "dismiss"
IsSleep(e) == e = "sleep"
IsDeq(e) == e = "deq"
\* The Future of c was resolved (and possibly discarded since).
Done(c) == fut[c].state \in {"result", "exception", "gone"}
\* A worker is between dequeuing c and leaving its for loop.
InProgress(c) == \E t \in Threads : witem[t] = c /\ wpc[t] \in {"run", "sleep"}
\* The worker took c off the queue.
Dequeued(c) == hist[c] # <<>> \/ fut[c].state = "gone"
InQueue(c) == \E i \in DOMAIN queue : queue[i] = c
AliveThreads == {t \in Threads : is_alive(t)}
\* The threads that are executing a unit of work.
Executing == {t \in Threads : wpc[t] \in {"run", "sleep"}}

\* C1: no two units of work are ever executing at the same time: at most one
\* dequeued pending call is between dequeued and future resolved.
C1_NoParallelUnits == Cardinality(Executing) <= 1

\* C2: strict FIFO: if call a was put on the queue before call b (calls are
\* numbered in the order of their execute()), then when the unit of work of
\* b has started, the Future of a is already resolved.
C2_StrictFIFO ==
    \A a, b \in Calls : (a < b /\ Dequeued(b)) => Done(a)

\* C3: at most one COM worker thread is alive in every reachable state.
C3_OneWorkerAlive == Cardinality(AliveThreads) <= 1

\* Calls to set_result / set_exception made on the Future of c.
Sets(c) == setCount[c].result + setCount[c].exception

\* C4: every dequeued pending call has its Future resolved exactly once:
\* never twice, never both by set_result and by set_exception, not while
\* attempts are still being made, and once when the worker is done with it.
C4_ResolvedExactlyOnce ==
    \A c \in Calls :
        /\ Sets(c) <= 1
        /\ InProgress(c) => Sets(c) = 0 /\ fut[c].state = "pending"
        /\ (Dequeued(c) /\ ~InProgress(c)) => Sets(c) = 1 /\ Done(c)
        /\ fut[c].state = "result" => setCount[c].result = 1
        /\ fut[c].state = "exception" => setCount[c].exception = 1

\* A call that was busy first and then failed with another error is resolved.
C4_Witness ==
    \E c \in Calls :
        /\ hist[c] = <<"deq", "busy", "dismiss", "sleep", "exc">>
        /\ fut[c].state = "exception"
        /\ Sets(c) = 1

\* C5: while a worker thread is alive and units of work terminate, a pending
\* call on the queue is eventually resolved, and it is dequeued only once.
C5_EnqueuedLeadsToResolved ==
    /\ \A c \in Calls : InQueue(c) ~> (Done(c) \/ AliveThreads = {})
    /\ [](\A c \in Calls : Len(SelectSeq(hist[c], IsDeq)) <= 1)

C5_Witness ==
    \E c \in Calls :
        /\ fut[c].state = "result"
        /\ Len(SelectSeq(hist[c], IsDeq)) = 1
        /\ AliveThreads # {}
        /\ cres[c].how = "return"

\* How execute() ended for the caller of c, when it ended through the
\* Future and not by the timeout of its own wait.
ThroughFuture(c) == cres[c].how \in {"return", "raise"}

\* C6: an error that is not transient-busy is never retried: it is the last
\* thing in the history of its call, the Future holds that exception
\* unwrapped, and execute() raises it when it ends through the
\* Future; raised by the first invocation, func was invoked exactly once,
\* with no dismissal and no sleep.
C6_NonTransientNotRetried ==
    \A c \in Calls : \A i \in DOMAIN hist[c] :
        hist[c][i] \in {"exc", "com_error"} =>
            /\ i = Len(hist[c])
            /\ i = 2 => hist[c] = <<"deq", hist[c][i]>>
            /\ fut[c].state = "exception"
            /\ fut[c].val.kind = hist[c][i]
            /\ fut[c].val.hresult \notin _BUSY_HRESULTS
            /\ fut[c].val.attempt = Len(Invocations(c)) - 1
            /\ ThroughFuture(c) =>
                   cres[c] = [how |-> "raise", val |-> fut[c].val]

C6_Witness ==
    \E c \in Calls :
        /\ hist[c] = <<"deq", "com_error">>
        /\ cres[c] = [how |-> "raise",
                      val |-> [kind |-> "com_error",
                               hresult |-> CHOOSE h \in OtherHResults : TRUE,
                               attempt |-> 0]]

\* The history of k transient-busy failures that are retried.
RECURSIVE RetryEvents(_)
RetryEvents(k) ==
    IF k = 0 THEN <<>>
    ELSE IF k = 1 THEN <<"busy", "dismiss", "sleep">>
    ELSE RetryEvents(k - 1) \o <<"busy", "sleep">>

Busies(k) == [i \in 1..k |-> "busy"]

\* C7: func that raises transient-busy K times (1 <= K < 4) and then succeeds
\* was invoked K + 1 times, with one dismissal right after the first failure
\* and before the first sleep; the Future holds the value and execute()
\* returns it when it ends through the Future.
C7_BusyThenSuccess ==
    \A c \in Calls : \A K \in 1..(_RETRY_MAX - 2) :
        Invocations(c) = Busies(K) \o <<"ok">> =>
            /\ hist[c] = <<"deq">> \o RetryEvents(K) \o <<"ok">>
            /\ Len(SelectSeq(hist[c], IsDismiss)) = 1
            /\ fut[c] = [state |-> "result",
                         val |-> [kind |-> "ok", hresult |-> 0, attempt |-> K]]
            /\ ThroughFuture(c) =>
                   cres[c] = [how |-> "return", val |-> fut[c].val]

C7_Witness ==
    \E c \in Calls :
        /\ Invocations(c) = Busies(3) \o <<"ok">>
        /\ cres[c].how = "return"

C9_ExceptionKeepsWorkerAlive ==
    [][\A t \in Threads :
          /\ wpc[t] = "run" => wpc'[t] \in {"run", "sleep", "loop"}
          /\ (wpc[t] # "dead" /\ wpc'[t] = "dead") =>
                \/ wpc[t] = "loop" /\ ~running
                \/ wpc[t] = "get" /\ queue # <<>> /\ Head(queue) = None
          /\ (wpc[t] = "loop" /\ running /\ wpc'[t] # "loop") =>
                wpc'[t] = "get"]_vars

\* The thread that delivered an exception for call 1 is running call 2.
C9_Witness ==
    /\ com_thread = 1
    /\ setCount[1].exception = 1
    /\ witem[1] = 2
    /\ wpc[1] = "run"

\* C10: start() on a running wrapper changes nothing and creates no thread;
\* after two start() calls in a row there is one worker thread.
C10_StartIdempotent ==
    /\ [][(ops' = Append(ops, "start") /\ running) =>
            UNCHANGED <<running, com_thread, queue, workerVars, fut,
                        callerVars, kpc, jtimer, hist, setCount>>]_vars
    /\ [](ops = <<"start", "start">> =>
            com_thread = 1 /\ AliveThreads = {1} /\ running)

C10_Witness ==
    /\ ops = <<"start", "start">>
    /\ AliveThreads = {1}

IsNone(e) == e = None
\* The shutdown sentinels that are on the queue.
Sentinels == Len(SelectSeq(queue, IsNone))

\* C11: stop() on a wrapper that is not running changes nothing and puts no
\* sentinel on the queue; stop() on a running wrapper clears the running flag
\* and puts exactly one sentinel on the queue; and stop() returns: the join
\* waits at most JOIN_TIMEOUT seconds and can end as soon as they are over,
\* whether the worker thread has ended or not.
C11_StopIdempotentTerminates ==
    /\ [][(ops' = Append(ops, "stop") /\ ~running) =>
            UNCHANGED <<running, com_thread, queue, workerVars, fut,
                        callerVars, kpc, jtimer, hist, setCount>>]_vars
    /\ [][(ops' = Append(ops, "stop") /\ running) =>
            /\ ~running'
            /\ queue' = Append(queue, None)
            /\ kpc' = "joining" => jtimer' = JOIN_TIMEOUT]_vars
    /\ [][(kpc = "joining" /\ kpc' = "joining") =>
            jtimer' \in {jtimer, jtimer - 1}]_vars
    /\ [](kpc = "joining" =>
            /\ jtimer \in 0..JOIN_TIMEOUT
            /\ (jtimer = 0 \/ ~is_alive(com_thread)) => ENABLED stop_join)

\* stop() has returned after the join timeout: the worker thread is still
\* in a unit of work or in the retry sleep, and one sentinel is on the queue.
C11_Witness ==
    /\ ops = <<"start", "stop">>
    /\ kpc = "idle"
    /\ ~running
    /\ is_alive(com_thread)
    /\ wpc[com_thread] \in {"run", "sleep"}
    /\ Sentinels = 1

\* execute() ended for the caller of c by the timeout of its wait.
TimedOut(c) == cres[c].how = "timeout"
\* The outcome of the last invocation of func made for c.
LastInvocation(c) == Invocations(c)[Len(Invocations(c))]

\* C12: the step by which execute() times out is taken with the Future
\* unresolved, gives the caller the timeout error and no value or exception
\* of the unit of work, and changes nothing else: the call stays where it is
\* (on the queue or with the worker) and its Future stays pending.  The
\* worker goes on with a timed-out call as with any other: when it is done
\* with it the Future is resolved once, with the outcome of the last
\* invocation.  A call queued behind a timed-out call is not taken off the
\* queue before the Future of the timed-out call is resolved, unless the
\* wrapper was restarted and a second worker thread took it; and what its
\* own execute() returns or raises is what its own unit of work produced.
C12_TimeoutLeavesWorkerAlone ==
    /\ [][\A c \in Calls :
            (cpc[c] = "waiting" /\ cres'[c].how = "timeout") =>
                /\ ~Resolved(c)
                /\ cres'[c].val = NoVal
                /\ UNCHANGED <<queue, fut, workerVars, ctlVars, hist,
                               setCount>>]_vars
    /\ [](\A c \in Calls : TimedOut(c) =>
            /\ cres[c].val = NoVal
            /\ (InQueue(c) \/ InProgress(c)) <=> fut[c].state = "pending"
            /\ (Dequeued(c) /\ ~InProgress(c)) =>
                   /\ Sets(c) = 1
                   /\ Resolved(c)
                   /\ OutcomeEvent(fut[c].val) = LastInvocation(c)
                   /\ fut[c].val.attempt = Len(Invocations(c)) - 1)
    /\ [](\A a, b \in Calls :
            (a < b /\ TimedOut(a) /\ Dequeued(b) /\ ~Done(a)) =>
                /\ InProgress(a)
                /\ com_thread > 1)
    /\ [](\A a, b \in Calls :
            (a < b /\ setCount[a].result + setCount[a].exception = 1
                   /\ ThroughFuture(b)) =>
                /\ cres[b].val = fut[b].val
                /\ OutcomeEvent(fut[b].val) = LastInvocation(b)
                /\ fut[b].val.attempt = Len(Invocations(b)) - 1)

\* The caller of call 1 has timed out, the worker has since resolved the
\* abandoned Future with the value of the unit of work, and call 2 is still
\* on the queue behind it.
C12_Witness ==
    /\ TimedOut(1)
    /\ fut[1].state = "result"
    /\ hist[1] = <<"deq", "busy", "dismiss", "sleep", "ok">>
    /\ InQueue(2)
    /\ cpc[2] = "waiting"

\* C13: a call whose unit of work was rejected as busy never ends for its
\* caller with the timeout error, and the sleeps added to it are at most 4
\* of 3 seconds.
C13_BusyNeverTimesOut ==
    \A c \in Calls :
        (\E i \in DOMAIN hist[c] : hist[c][i] = "busy") =>
            /\ ~TimedOut(c)
            /\ Len(SelectSeq(hist[c], IsSleep)) * _RETRY_INTERVAL <= 12

\* ---- the handle manager in the claims ----
\* The calls that return the Application handle.
HandleCalls == {"connect", "get_app"}
\* The GetActiveObject and Dispatch calls a handle-manager call can make.
Attach == <<"GetActiveObject">>
AttachThenLaunch == <<"GetActiveObject", "Dispatch">>

\* C14: a connect or get-or-reconnect call that finds a cached handle whose
\* liveness probe succeeds returns that handle, keeps it cached and calls
\* neither GetActiveObject nor Dispatch; so the handles returned by connect,
\* get_app, get_app with the probe succeeding are one and the same handle,
\* which is still the cached one.
C14_CachedHandleReused ==
    /\ (last.op \in HandleCalls /\ last.probed = "ok") =>
          /\ last.how = "return"
          /\ last.ret.handle = last.pre.app
          /\ _app = last.pre.app
          /\ nhandles = last.pre.nh
          /\ last.calls = <<>>
    /\ \A i \in DOMAIN trip : trip[i] = trip[1] /\ trip[i] = _app

\* connect attached or launched, and two get_app calls returned its handle.
C14_Witness ==
    /\ Len(trip) = 3
    /\ last.op = "get_app"
    /\ last.calls = <<>>
    /\ last.ret.handle = trip[1]
    /\ trip[1] = nhandles

\* C15: when the probe of the cached handle fails, connect and
\* get-or-reconnect call GetActiveObject first, Dispatch only when no host
\* is running to attach to, and raise ConnectionError only when Dispatch
\* failed as well, and then self._app is None.  Otherwise they return a new
\* handle to a running host, which is the one cached; a handle whose host
\* has exited is never returned, and no other error is raised.
C15_StaleHandleHealed ==
    /\ (last.op \in HandleCalls /\ last.probed = "failed") =>
          /\ last.calls \in {Attach, AttachThenLaunch}
          /\ last.calls = Attach <=> last.pre.host
          /\ last.how = "raise" =>
                /\ last.err.type = "ConnectionError"
                /\ last.calls = AttachThenLaunch
                /\ _app = None
                /\ ~host
          /\ last.how = "return" =>
                /\ last.ret.handle # last.pre.app
                /\ nhandles = last.pre.nh + 1
                /\ last.ret.handle = nhandles
    /\ (last.op \in HandleCalls /\ last.how = "return") =>
          /\ last.ret.handle = _app
          /\ _app # None
          /\ ~stale
          /\ host

\* The host of the cached handle has exited and PowerPoint cannot be
\* launched: ConnectionError, and no handle is cached.
C15_Witness ==
    /\ last.op \in HandleCalls
    /\ last.probed = "failed"
    /\ last.pre.stale
    /\ last.calls = AttachThenLaunch
    /\ last.err.type = "ConnectionError"
    /\ _app = None

\* C16: a connect with no visibility requested that has to connect afresh
\* changes the visibility of the host only when it launched the host; when
\* it attached to a running host the visibility is what it was.
C16_AttachKeepsVisibility ==
    ( /\ last.op = "connect"
      /\ last.arg.visible = "None"
      /\ last.probed # "ok"
      /\ last.how = "return" ) =>
        /\ last.calls = Attach => Visible = last.pre.vis
        /\ Visible # last.pre.vis => last.calls = AttachThenLaunch

\* C17: get-or-reconnect leaves the visibility of the host as it was, on
\* every path: with a host running when it is called, the host is as
\* visible or as hidden after the call as before.
C17_GetAppKeepsVisibility ==
    (last.op = "get_app" /\ last.how = "return" /\ last.pre.host) =>
        Visible = last.pre.vis

\* The pinned document is among the open ones of state s.
PinnedOpen(s) == \E i \in DOMAIN s.pres : FullName(s.pres[i]) = s.pin
\* The call just made resolved the target with the pinned document closed.
PinClosed ==
    last.op = "get_pres" /\ last.pre.pin # NoName /\ ~PinnedOpen(last.pre)
\* The call just made resolved the target with nothing pinned.
Unpinned == last.op = "get_pres" /\ last.pre.pin = NoName

\* C18: resolving the target after the pinned document was closed, with a
\* host reached, returns the active document without raising and clears the
\* pin; and resolving with no pin makes no search before it goes to the
\* active document.
C18_ClosedPinFallsBack ==
    /\ (PinClosed /\ last.err.type # "ConnectionError") =>
          /\ last.how = "return"
          /\ last.ret.doc = Presentations[active]
          /\ _target_pres_full_name = NoName
    /\ Unpinned =>
          /\ ~last.searched
          /\ _target_pres_full_name = NoName
          /\ last.how = "return" => last.ret.doc = Presentations[active]

\* C18 amended: resolving the target after the pinned document was closed
\* clears the pin whenever a host is reached (the search is made and finds
\* nothing); it then returns the active document if a document is open and
\* raises the error of the host if none is.  When no host is reached it
\* raises ConnectionError and the pin stays.  Resolving with no pin makes
\* no search and leaves the pin empty, and what it returns is the active
\* document.
C18_ClosedPinCleared ==
    /\ (PinClosed /\ last.err.type # "ConnectionError") =>
          /\ _target_pres_full_name = NoName
          /\ last.searched
          /\ IF Presentations = <<>>
             THEN last.how = "raise" /\ last.err.type = "com_error"
             ELSE /\ last.how = "return"
                  /\ last.ret.doc = Presentations[active]
                  /\ last.ret.index = active
                  /\ active = IF last.pre.host THEN last.pre.active ELSE 0
    /\ (PinClosed /\ last.err.type = "ConnectionError") =>
          /\ last.how = "raise"
          /\ _target_pres_full_name = last.pre.pin
    /\ Unpinned =>
          /\ ~last.searched
          /\ _target_pres_full_name = NoName
          /\ last.how = "return" => last.ret.doc = Presentations[active]

\* The pinned document was closed, another one is open and is returned.
C18_Witness ==
    /\ PinClosed
    /\ last.how = "return"
    /\ last.ret.doc = Presentations[active]
    /\ _target_pres_full_name = NoName

\* C19: pinning by a position p with N >= 1 documents open and p < 1 or
\* p > N raises the error that names the position and the range 1-N, and
\* the pin stays as it was.
C19_OutOfRangeNamesRange ==
    ( /\ last.op = "set_target_pres"
      /\ last.arg.kind = "int"
      /\ Len(last.pre.pres) >= 1
      /\ (last.arg.n < 1 \/ last.arg.n > Len(last.pre.pres)) ) =>
        /\ last.how = "raise"
        /\ last.err.type = "ValueError"
        /\ last.err.text = "out of range"
        /\ last.err.index = last.arg.n
        /\ last.err.lo = 1
        /\ last.err.hi = Len(last.pre.pres)
        /\ _target_pres_full_name = last.pre.pin

\* Position N + 1 with N = MaxOpen documents open, and a pin that stays.
C19_Witness ==
    /\ last.op = "set_target_pres"
    /\ last.arg.kind = "int"
    /\ Len(Presentations) = MaxOpen
    /\ last.arg.n = MaxOpen + 1
    /\ last.err.hi = MaxOpen
    /\ _target_pres_full_name # NoName

\* Two strings that differ at most in the case of their letters.
SameLetter(x, y) == x = y \/ {x, y} \in {{"a", "A"}, {"b", "B"}}
SameIgnoringCase(u, v) ==
    Len(u) = Len(v) /\ \A i \in DOMAIN u : SameLetter(u[i], v[i])
\* The positions of the open documents that the name selects.
Selected(pres, nm) ==
    {i \in DOMAIN pres : \/ SameIgnoringCase(nm, Name(pres[i]))
                         \/ SameIgnoringCase(nm, FullName(pres[i]))}

\* C20: pinning by a name, with documents open: the name selects the
\* documents whose short name or full name equals it up to case.  When it
\* selects none, the error lists the short names of all open documents;
\* when it selects two or more, the error is the ambiguity error; in both
\* cases the pin stays as it was.  When it selects one, the call returns
\* that document and its position and the pin is its full name, whether
\* the activation of its window worked (it is the active one) or not.
C20_PinByName ==
    ( /\ last.op = "set_target_pres"
      /\ last.arg.kind = "str"
      /\ last.pre.pres # <<>> ) =>
        LET M == Selected(last.pre.pres, last.arg.name) IN
        /\ M = {} =>
              /\ last.how = "raise"
              /\ last.err.type = "ValueError"
              /\ last.err.text = "not found"
              /\ last.err.names =
                    [i \in DOMAIN last.pre.pres |-> Name(last.pre.pres[i])]
              /\ _target_pres_full_name = last.pre.pin
        /\ Cardinality(M) >= 2 =>
              /\ last.how = "raise"
              /\ last.err.type = "ValueError"
              /\ last.err.text = "multiple match"
              /\ _target_pres_full_name = last.pre.pin
        /\ \A i \in M : Cardinality(M) = 1 =>
              /\ last.how = "return"
              /\ last.ret.doc = last.pre.pres[i]
              /\ last.ret.index = i
              /\ _target_pres_full_name = FullName(last.pre.pres[i])
              /\ active \in {i, last.pre.active}

\* A full path given in another case selects one document; the activation
\* of its window failed, and its full name is pinned all the same.
C20_Witness ==
    /\ last.op = "set_target_pres"
    /\ last.arg.name = <<"B", "/", "A">>
    /\ last.how = "return"
    /\ _target_pres_full_name = <<"b", "/", "a">>
    /\ active # last.ret.index

\* ---- C21 ----
\* A thread that has just called _try_dismiss_ppt_dialog.
JustDismissed(t) == wdis[t].called

\* C21: the dismissal side-channel never raises and never stops the retry
\* loop.  Whatever the desktop did (no window, SetForegroundWindow failed,
\* the ESC key could not be sent) the call returned normally and the worker
\* is in the sleep of the first attempt, the Future still pending; its next
\* step is the second attempt on the same call.  When the window was not
\* found, the foreground window was not changed and no key was sent.
C21_DismissalNeverStopsRetry ==
    /\ [](\A t \in Threads : JustDismissed(t) =>
            /\ ~wdis[t].raised
            /\ wpc[t] = "sleep"
            /\ attempt[t] = 0
            /\ fut[witem[t]].state = "pending"
            /\ hist[witem[t]][Len(hist[witem[t]])] = "sleep"
            /\ hist[witem[t]][Len(hist[witem[t]]) - 1] = "dismiss"
            /\ ~wdis[t].found => ~wdis[t].foreground /\ ~wdis[t].esc
            /\ wdis[t].esc => wdis[t].foreground)
    /\ [][\A t \in Threads :
            JustDismissed(t) /\ wpc'[t] # wpc[t] =>
                /\ wpc'[t] = "run"
                /\ attempt'[t] = 1
                /\ witem'[t] = witem[t]]_vars

\* SetForegroundWindow failed in the dismissal, and the worker sleeps
\* before the second attempt.
C21_Witness ==
    \E t \in Threads :
        /\ JustDismissed(t)
        /\ wdis[t].found
        /\ ~wdis[t].foreground
        /\ wpc[t] = "sleep"

\* ---- C22 ----
\* The worker has called _try_dismiss_ppt_dialog for a call that is still
\* at hand.
DismissalAttempted ==
    \/ \E t \in Threads : wdis[t].called
    \/ \E c \in Calls : \E i \in DOMAIN hist[c] : IsDismiss(hist[c][i])

\* C22: dialog auto-dismissal is opt-in.  While PPT_AUTO_DISMISS_DIALOG is
\* not set to true, no dismissal is attempted during the busy retries.
C22_DismissalOptIn ==
    ~PPT_AUTO_DISMISS_DIALOG => ~DismissalAttempted

\* ---- C23 ----
\* Two strings that differ at most in the case of their letters.
CasePairs ==
    {<<"a", "A">>, <<"c", "C">>, <<"e", "E">>, <<"n", "N">>, <<"o", "O">>,
     <<"r", "R">>, <<"t", "T">>, <<"u", "U">>}
SameSpelling(u, v) ==
    /\ Len(u) = Len(v)
    /\ \A i \in DOMAIN u :
          u[i] = v[i] \/ <<u[i], v[i]>> \in CasePairs
                     \/ <<v[i], u[i]>> \in CasePairs

\* C23: BuildFreeformInput accepts start_editing_type only when it is 'auto'
\* or 'corner' in any spelling of upper and lower case, and stores it
\* lower-cased; 'smooth', 'symmetric' and every other value end in a
\* validation error.
C23_OnlyAutoOrCorner ==
    /\ form.how = "accepted" =>
            /\ form.start_editing_type \in {Auto, Corner}
            /\ SameSpelling(form.start_editing_type, FieldValue(form.raw))
    /\ form.how = "ValidationError" /\ FieldsValid(form.raw) =>
            \A w \in {Auto, Corner} :
                ~SameSpelling(w, FieldValue(form.raw))

\* ---- C24 ----
\* The call just made resolved the target with the pinned document open.
PinOpen ==
    last.op = "get_pres" /\ last.pre.pin # NoName /\ PinnedOpen(last.pre)

\* C24: resolving the target while a document with the pinned full path is
\* open returns that document and leaves the pin as it was, whether or not
\* its window could be activated; with no pin set, what is returned is the
\* active document, and the pin and the open documents stay as they were.
C24_OpenPinResolved ==
    /\ PinOpen =>
          /\ last.how = "return"
          /\ FullName(last.ret.doc) = last.pre.pin
          /\ Presentations[last.ret.index] = last.ret.doc
          /\ active \in {last.pre.active, last.ret.index}
          /\ _target_pres_full_name = last.pre.pin
          /\ Presentations = last.pre.pres
    /\ Unpinned =>
          /\ _target_pres_full_name = NoName
          /\ last.how = "return" =>
                /\ last.ret.doc = Presentations[active]
                /\ Presentations = last.pre.pres
                /\ active = last.pre.active

\* ---- C27 ----
\* The call just made was a pin request.
PinRequest == last.op = "set_target_pres"
PinFailures ==
    {"No presentation is open", "out of range", "not found", "multiple match"}

\* C27: a pin request that fails (no document open, position out of range,
\* no name match, more than one name match, or no host) leaves the pin as
\* it was; the pin is written only by a request that succeeds, and then it
\* is the full path of the document returned.
C27_FailedPinKeepsPin ==
    /\ (PinRequest /\ last.how = "raise") =>
          /\ _target_pres_full_name = last.pre.pin
          /\ last.err.text \in PinFailures \/ last.err.type = "ConnectionError"
    /\ (PinRequest /\ _target_pres_full_name # last.pre.pin) =>
          /\ last.how = "return"
          /\ _target_pres_full_name = FullName(last.ret.doc)

\* A name that two open documents match is asked for while another pin is
\* set: the request fails and the pin stays.
C27_Witness ==
    /\ PinRequest
    /\ last.how = "raise"
    /\ last.err.text = "multiple match"
    /\ last.pre.pin # NoName
    /\ _target_pres_full_name = last.pre.pin

\* ---- C28 ----
\* C28: resolve clears the pin only when no open document has the pinned
\* full path.  While the pinned document is open a resolve leaves the pin
\* set and returns no other document, also when the reads of the scan
\* raise.
C28_OpenPinNeverCleared ==
    /\ (last.op = "get_pres" /\ last.pre.pin # NoName
            /\ _target_pres_full_name = NoName) => ~PinnedOpen(last.pre)
    /\ PinOpen => (last.how = "return" =>
                      FullName(last.ret.doc) = last.pre.pin)

\* ---- C25 ----
\* C25: no cancellation in flight.  A worker that has dequeued a call
\* leaves its for loop only with the Future resolved, and until then it
\* keeps the call and neither tests the running flag nor reads the queue;
\* after a retry sleep its next step is the next attempt, whether stop()
\* was called meanwhile or not; and a call that is in progress when the
\* running flag is false is still resolved.
C25_NoCancellationInFlight ==
    /\ [][\A t \in Threads :
            (wpc[t] \in {"run", "sleep"} /\ wpc'[t] # wpc[t]) =>
                /\ wpc'[t] \in {"run", "sleep", "loop"}
                /\ witem'[t] = witem[t]
                /\ wpc[t] = "sleep" =>
                      wpc'[t] = "run" /\ attempt'[t] = attempt[t] + 1
                /\ wpc'[t] = "sleep" => attempt'[t] = attempt[t]
                /\ wpc'[t] = "loop" =>
                      fut'[witem[t]].state \in {"result", "exception"}]_vars
    /\ \A c \in Calls : (InProgress(c) /\ ~running) ~> (Sets(c) = 1)

\* stop() was called and waits in the join while the worker, back from a
\* retry sleep, makes a further attempt on the call it holds.
C25_Witness ==
    \E t \in Threads :
        /\ ~running
        /\ kpc = "joining"
        /\ wpc[t] = "run"
        /\ attempt[t] >= 1
        /\ fut[witem[t]].state = "pending"

\* ---- C26 ----
\* start() has just made a new worker thread, stop() has returned, and
\* every older worker thread has ended.
Restarted ==
    /\ running
    /\ kpc = "idle"
    /\ com_thread >= 2
    /\ wpc[com_thread] = "loop"
    /\ \A t \in Threads : t # com_thread => ~is_alive(t)

\* C26: restart works.  From a start() that follows a stop() with the old
\* worker ended, a live worker thread exists whenever the running flag is
\* true, and a pending call that is on the queue then is resolved.
C26_RestartWorks ==
    [](Restarted =>
         /\ [](running => AliveThreads # {})
         /\ \A c \in Calls : [](InQueue(c) /\ running => <>Done(c)))

\* ---- C29 ----
\* execute() puts the pending call on the queue whatever the running flag
\* is.
C29_EnqueueUnchecked ==
    [][\A c \in Calls :
         (cpc[c] = "idle" /\ cpc'[c] = "waiting") =>
             queue' = Append(queue, c) /\ running' = running]_vars

\* A pending call leaves the queue only when a live worker dequeues it:
\* stop() and the end of a worker thread leave it where it is.
C29_NeverDrained ==
    [][\A c \in Calls :
         (InQueue(c) /\ ~InQueue(c)') =>
             \E t \in Threads : /\ wpc[t] = "get"
                                /\ wpc'[t] = "run"
                                /\ witem'[t] = c]_vars

\* While no worker is alive the Future of a queued call stays pending, and
\* its caller can only end with the timeout error.
C29_StrandedTimesOut ==
    [](\A c \in Calls :
         (InQueue(c) /\ AliveThreads = {}) =>
             /\ fut[c].state = "pending"
             /\ cpc[c] = "done" => TimedOut(c))

\* The caller of c has given up, c is still queued, no older worker is
\* alive, and start() has just made a new worker.
StrandedAtStart(c) ==
    /\ InQueue(c)
    /\ TimedOut(c)
    /\ running
    /\ wpc[com_thread] = "loop"
    /\ \A t \in Threads : t # com_thread => ~is_alive(t)

\* C29: execute() enqueues without a test of the running flag and nothing
\* drains the queue: a call queued while no worker is alive stays pending
\* and its caller times out, and the entry stays on the queue and is run by
\* the next worker that start() makes, after its caller has given up,
\* unless stop() is called again first.
C29_StrandedCallRunsLater ==
    /\ C29_EnqueueUnchecked
    /\ C29_NeverDrained
    /\ C29_StrandedTimesOut
    /\ \A c \in Calls :
          [](StrandedAtStart(c) =>
                <>(\/ \E t \in Threads : t = com_thread /\ witem[t] = c
                   \/ ~running))

\* ---- C30 ----
\* The unit of work of thread t has called execute() and waits for call c.
WaitsInside(t, c) == wpc[t] = "inner" /\ winner[t] = c

\* C30: execute() is not re-entrant from the worker thread.  While a unit
\* of work waits in an execute() that it called itself, the inner pending
\* call is not dequeued, so that execute() ends with the timeout error and
\* never with a value or with the error of the inner unit.
C30_NotReentrant ==
    \A t \in Threads, c \in Calls :
        WaitsInside(t, c) =>
            /\ ~Dequeued(c)
            /\ fut[c].state = "pending"
            /\ cres[c].how \in {"none", "timeout"}

====
